---- MODULE Spec2Model ----
(***************************************************************************)
(* go-meta: batch conversion of rendered WAV files with ffmpeg.            *)
(*                                                                         *)
(* The module models src/main.go: main (metadata time, the loop over the   *)
(* albums, the work pool with its two callbacks), processAlbum (the task   *)
(* compiler: source stat, target folder, target name, staleness test and   *)
(* the ffmpeg argument list) and override.                                 *)
(*                                                                         *)
(* Three specifications share the variables and the actions:               *)
(*   Spec      runs of main over a filesystem with a few anomalies; the    *)
(*             work pool is one step whose effect is the encoders' writes  *)
(*   SpecTags  one compilation over every combination of album and track   *)
(*             cover art and extension                                     *)
(*   SpecPool  the work pool step by step: workers, the encoder processes, *)
(*             the err variable the callbacks share, and the reporter      *)
(*             (SpecPoolFair adds the scheduler's fairness)                *)
(***************************************************************************)
EXTENDS Integers, Sequences, FiniteSets, TLC

VARIABLES
    metadata,        \* main.go:89   the unmarshalled Metadata
    metadataModTime, \* main.go:73   modification time of the metadata file
    fs,              \* the filesystem: path -> [isDir, modTime]
    faulty,          \* target paths the encoder cannot write (launch error or non-zero exit)
    pc,              \* where main is: "start", "compile", "pool", "done"
    run,             \* which run of the program this is (1-based)
    albumIndex,      \* main.go:106  index of the next album of the range loop
    workItems,       \* main.go:103  the WorkItems collected so far
    stdout,          \* what the compiler printed on standard output
    stderr,          \* what the compiler printed on standard error
    history,         \* per finished run: what was compiled and which tasks succeeded
    numThreads,      \* main.go:60   *numThreadsFlag
    next,            \* work pool: index of the next item to hand to a worker
    worker,          \* work pool: per worker, its position and item
    err,             \* main.go:74   main's err, assigned by every worker at main.go:125
    results,         \* work pool: items returned by the work callback, not yet reported
    reporting,       \* work pool: the item the reporter is printing (<<>> when idle)
    reported,        \* the reports made, in order
    launches,        \* per item: how many times exec.Command(...).Run() was started
    exited,          \* per item: how many of its processes have terminated
    returned         \* TRUE once coutil.WorkPool has returned

compileVars == <<metadata, metadataModTime, fs, faulty, pc, run, albumIndex,
                 workItems, stdout, stderr, history>>
poolVars == <<numThreads, next, worker, err, results, reporting, reported,
              launches, exited, returned>>
vars == <<compileVars, poolVars>>

\* What the work pool leaves alone.
inputVars == <<metadata, metadataModTime, fs, faulty, run, albumIndex, workItems,
               stdout, stderr, history, numThreads>>

-----------------------------------------------------------------------------
(* Bounds of the model. *)

MaxAlbums == 2     \* albums in the metadata
MaxTracks == 2     \* tracks per album
MaxExts == 2       \* entries of output_extensions
MaxTime == 2       \* modification times are 1..MaxTime
MaxFaults == 2     \* anomalies of the environment (see Faults)
MaxRuns == 2       \* runs of the program, one after the other

\* The extensions the metadata may list.  "ogg" takes the same paths through
\* processAlbum as "flac" (no special case but its compression arguments).
Extensions == {"mp3", "flac", "wav"}

Times == 1..MaxTime

\* The encoders write their targets while the program runs: not before any
\* modification time the filesystem already holds, and, file times being
\* coarse, possibly at the same time as the latest of them.
WriteTime == MaxTime

-----------------------------------------------------------------------------
(* Go values. *)

\* A *string is <<>> (nil) or <<s>> (a pointer to s).
Nil == <<>>
Ptr(s) == <<s>>

\* A slip at main.go:261: an empty override taken for an absent one.
OverrideUnlessEmpty(basic, ovr) == IF ovr # Nil /\ ovr[1] # "" THEN ovr[1] ELSE basic

\* main.go:260  override(basic, override)
override(basic, ovr) == IF ovr # Nil THEN ovr[1] ELSE basic

\* time.Time.After: strictly later.
After(t, u) == t > u

\* fmt.Sprintf("%d", n)
FormatD(n) == ToString(n)

\* fmt.Sprintf("%02d", n): at least two digits, padded with zeros.
Format02D(n) == IF n >= 0 /\ n < 10 THEN "0" \o ToString(n) ELSE ToString(n)

RECURSIVE JoinFrom(_, _)
JoinFrom(parts, i) ==
    IF i > Len(parts) THEN ""
    ELSE LET rest == JoinFrom(parts, i + 1)
         IN  IF parts[i] = "" THEN rest
             ELSE IF rest = "" THEN parts[i]
             ELSE parts[i] \o "/" \o rest

\* filepath.Join: the non-empty elements, separated.
Join(parts) == JoinFrom(parts, 1)

-----------------------------------------------------------------------------
(* The filesystem: a function from the paths that exist to their entries. *)

File(t) == [isDir |-> FALSE, modTime |-> t]
Dir(t) == [isDir |-> TRUE, modTime |-> t]

\* os.Stat(path): err is TRUE when the path does not exist.
Stat(f, path) ==
    IF path \in DOMAIN f
    THEN [err |-> FALSE, IsDir |-> f[path].isDir, ModTime |-> f[path].modTime]
    ELSE [err |-> TRUE, IsDir |-> FALSE, ModTime |-> 0]

\* The path and its ancestors, from the first element down.
Prefixes(parts) == {Join(SubSeq(parts, 1, k)) : k \in 1..Len(parts)}

\* os.MkdirAll(Join(parts)): fails when the path or one of its ancestors is a
\* regular file; otherwise every missing directory on the way is created.
MkdirAll(f, parts) ==
    IF \E p \in Prefixes(parts) : p \in DOMAIN f /\ ~f[p].isDir
    THEN [err |-> TRUE, fs |-> f]
    ELSE [err |-> FALSE,
          fs |-> [p \in DOMAIN f \cup Prefixes(parts) |->
                     IF p \in DOMAIN f THEN f[p] ELSE Dir(WriteTime)]]

\* filepath.FromSlash: the separator of the platform modelled is the slash.
FromSlash(path) == path

-----------------------------------------------------------------------------
(* processAlbum, main.go:149-258. *)

\* A slip at main.go:155: the ordinal taken for the 0-based index.
TrackNumberFromZero(trackIndex) == trackIndex

\* main.go:155  trackNumber := trackIndex + 1 (trackIndex counts from 0)
TrackNumber(trackIndex) == trackIndex + 1

\* main.go:158
InputRenderedPath(md, track) == Join(<<md.InputPath, track.RenderedFile \o ".wav">>)

\* main.go:174  the elements of targetFolder
TargetFolderParts(md, album, extension) ==
    <<md.OutputPath, extension, album.Artist, album.Title>>

TargetFolder(md, album, extension) == Join(TargetFolderParts(md, album, extension))

\* main.go:184  "%s - %s - %02d %s [%s].%s"
TargetName(album, track, trackNumber, extension) ==
    album.Artist \o " - " \o album.Title \o " - " \o Format02D(trackNumber) \o " "
        \o track.Title \o " [" \o track.RenderedFile \o "]." \o extension

\* main.go:182
TargetPath(md, album, track, trackNumber, extension) ==
    Join(<<TargetFolder(md, album, extension),
           TargetName(album, track, trackNumber, extension)>>)

\* A slip at main.go:198: || for &&.
UpToDateEither(targetModTime, inputModTime, mmt) ==
    After(targetModTime, inputModTime) \/ After(targetModTime, mmt)

\* A slip at main.go:198: "not before" for "after".
UpToDateOrEqual(targetModTime, inputModTime, mmt) ==
    ~After(inputModTime, targetModTime) /\ ~After(mmt, targetModTime)

\* main.go:198  the existing target is more recent than the rendered file and the metadata
UpToDate(targetModTime, inputModTime, mmt) ==
    After(targetModTime, inputModTime) /\ After(targetModTime, mmt)

\* A slip at main.go:189-202: the directory test left out.
TargetDecisionNoDirectoryTest(targetStat, inputRenderedStat, mmt) ==
    IF ~targetStat.err /\ UpToDate(targetStat.ModTime, inputRenderedStat.ModTime, mmt)
    THEN "skip"
    ELSE "encode"

\* main.go:189-202  what the stat of the target decides
TargetDecision(targetStat, inputRenderedStat, mmt) ==
    IF ~targetStat.err /\ targetStat.IsDir THEN "directory"
    ELSE IF ~targetStat.err
            /\ UpToDate(targetStat.ModTime, inputRenderedStat.ModTime, mmt)
    THEN "skip"
    ELSE "encode"

\* main.go:207  the guard of the cover-art arguments
HasCover(album, track) == Len(album.Cover) > 0

\* main.go:207-216  cover art: a second input, and the stream maps of mp3
CoverArgs(album, track, extension) ==
    IF HasCover(album, track)
    THEN (IF extension # "wav"
          THEN <<"-i", FromSlash(override(album.Cover, track.Cover)),
                 "-disposition:v", "attached_pic",
                 "-metadata:s:v", "title=Album Cover",
                 "-metadata:s:v", "comment=Cover (Front)">>
          ELSE <<>>)
         \o (IF extension = "mp3"
             THEN <<"-map", "0:a", "-map", "1:v", "-id3v2_version", "3">>
             ELSE <<>>)
    ELSE <<>>

\* main.go:219-221
CopyArgs(extension) == IF extension = "wav" THEN <<"-acodec", "copy">> ELSE <<>>

\* main.go:224-234
MetadataArgs(album, track, trackNumber) ==
    <<"-metadata", "track=" \o FormatD(trackNumber),
      "-metadata", "title=" \o track.Title,
      "-metadata", "album=" \o album.Title,
      "-metadata", "genre=" \o override(album.Genre, track.Genre),
      "-metadata", "date=" \o override(album.Date, track.Date),
      "-metadata", "artist=" \o override(album.Artist, track.Artist),
      "-metadata", "album_artist=" \o override(album.Artist, track.Artist),
      "-metadata", "composer=" \o override(album.Composer, track.Composer),
      "-metadata", "comment=" \o override(album.Copyright, track.Copyright)>>

\* main.go:237-244
CompressionArgs(extension) ==
    CASE extension = "flac" -> <<"-compression_level", "12">>
      [] extension = "mp3" -> <<"-compression_level", "0", "-abr", "1", "-b:a", "320k">>
      [] extension = "ogg" -> <<"-q", "10">>
      [] OTHER -> <<>>

\* main.go:205-246  the arguments for ffmpeg
BuildArgs(album, track, trackNumber, extension, inputRenderedPath, targetPath) ==
    <<"-loglevel", "quiet", "-y", "-i", inputRenderedPath>>
        \o CoverArgs(album, track, extension)
        \o CopyArgs(extension)
        \o MetadataArgs(album, track, trackNumber)
        \o CompressionArgs(extension)
        \o <<targetPath>>

\* main.go:248-251
NewWorkItem(inputRenderedPath, targetPath, args) ==
    [Task |-> inputRenderedPath \o " to " \o targetPath, Args |-> args, Error |-> Nil]

\* What the compiler prints.
LookingFor(path) == <<"error: Looking for", path>>
IsADirectory(path) == <<"error: is a directory (skipping)!", path>>
CreatingDirectory(path) == <<"error: Creating directory", path>>
Skipping(path) == <<"Skipping", path>>

\* main.go:171-254  one turn of the loop over the extensions.  st holds the
\* work items, the two outputs and the filesystem as they stand.
ProcessExtension(md, album, track, trackNumber, inputRenderedStat, mmt, extension, st) ==
    LET inputRenderedPath == InputRenderedPath(md, track)
        mk == MkdirAll(st.fs, TargetFolderParts(md, album, extension))
        targetPath == TargetPath(md, album, track, trackNumber, extension)
        targetStat == Stat(mk.fs, targetPath)
        decision == TargetDecision(targetStat, inputRenderedStat, mmt)
    IN  IF mk.err
        THEN [st EXCEPT !.stderr =
                 Append(@, CreatingDirectory(TargetFolder(md, album, extension)))]
        ELSE IF decision = "directory"
        THEN [st EXCEPT !.fs = mk.fs, !.stderr = Append(@, IsADirectory(targetPath))]
        ELSE IF decision = "skip"
        THEN [st EXCEPT !.fs = mk.fs, !.stdout = Append(@, Skipping(targetPath))]
        ELSE [st EXCEPT !.fs = mk.fs,
                        !.workItems = Append(@, NewWorkItem(inputRenderedPath, targetPath,
                            BuildArgs(album, track, trackNumber, extension,
                                      inputRenderedPath, targetPath)))]

RECURSIVE ProcessExtensions(_, _, _, _, _, _, _, _)
ProcessExtensions(md, album, track, trackNumber, inputRenderedStat, mmt, i, st) ==
    IF i > Len(md.OutputExtensions) THEN st
    ELSE ProcessExtensions(md, album, track, trackNumber, inputRenderedStat, mmt, i + 1,
             ProcessExtension(md, album, track, trackNumber, inputRenderedStat, mmt,
                              md.OutputExtensions[i], st))

\* A slip at main.go:162, 166: `break` for `continue`.
LeaveTheAlbum(album, trackIndex) == Len(album.Tracks)

\* main.go:162, 166  `continue`: on with the track after this one
ContinueWithNextTrack(album, trackIndex) == trackIndex + 1

\* main.go:154-255  the loop over the tracks, from the track at trackIndex on
RECURSIVE ProcessTracks(_, _, _, _, _)
ProcessTracks(md, album, mmt, trackIndex, st) ==
    IF trackIndex >= Len(album.Tracks) THEN st
    ELSE LET track == album.Tracks[trackIndex + 1]
             trackNumber == TrackNumber(trackIndex)
             inputRenderedPath == InputRenderedPath(md, track)
             inputRenderedStat == Stat(st.fs, inputRenderedPath)
         IN  IF inputRenderedStat.err
             THEN ProcessTracks(md, album, mmt, ContinueWithNextTrack(album, trackIndex),
                      [st EXCEPT !.stderr = Append(@, LookingFor(inputRenderedPath))])
             ELSE IF inputRenderedStat.IsDir
             THEN ProcessTracks(md, album, mmt, ContinueWithNextTrack(album, trackIndex),
                      [st EXCEPT !.stderr = Append(@, IsADirectory(inputRenderedPath))])
             ELSE ProcessTracks(md, album, mmt, trackIndex + 1,
                      ProcessExtensions(md, album, track, trackNumber, inputRenderedStat,
                                        mmt, 1, st))

\* main.go:149  processAlbum: the work items of one album, what it printed and
\* the filesystem it leaves (the target folders it created)
processAlbum(md, album, mmt, f) ==
    ProcessTracks(md, album, mmt, 0,
                  [workItems |-> <<>>, stdout |-> <<>>, stderr |-> <<>>, fs |-> f])

-----------------------------------------------------------------------------
(* The inputs: the albums README.md shows in its example, and one more, cut *)
(* to the bounds.                                                            *)

Track(renderedFile, title) ==
    [RenderedFile |-> renderedFile, Title |-> title,
     Composer |-> Nil, Artist |-> Nil, Genre |-> Nil, Date |-> Nil,
     Cover |-> Nil, Copyright |-> Nil]

Album(title, cover, tracks) ==
    [Title |-> title, Composer |-> "The Composer", Artist |-> "The Composer",
     Genre |-> "Electronic", Date |-> "2023", Cover |-> cover,
     Copyright |-> "Copyright (c) 2023 The Composer", Tracks |-> tracks]

Catalogue ==
    <<Album("Fruit", "Art/Fruit.png",
            <<Track("30", "Apple"), Track("31", "Pear"), Track("32", "Banana")>>),
      Album("Directions", "Art/Directions.png",
            <<Track("33", "Left"), Track("34", "Right"), Track("35", "Up"),
              Track("35", "Down")>>),
      Album("Colours", "Art/Colours.png",
            <<Track("36", "Red"), Track("37", "Green"), Track("38", "Blue")>>)>>

Min(a, b) == IF a < b THEN a ELSE b

\* The first nAlbums albums of the catalogue, each with its first nTracks tracks.
AlbumsOf(nAlbums, nTracks) ==
    [a \in 1..Min(nAlbums, Len(Catalogue)) |->
        [Catalogue[a] EXCEPT !.Tracks = SubSeq(@, 1, Min(nTracks, Len(@)))]]

MetadataOf(extensions, albums) ==
    [FfmpegPath |-> "bin/ffmpeg", InputPath |-> "renders",
     OutputPath |-> "renders/albums", OutputExtensions |-> extensions,
     Parallel |-> TRUE, Albums |-> albums]

\* flag.Arg(0)
MetadataPath == "example.json"

RECURSIVE SeqsUpTo(_, _)
SeqsUpTo(S, n) ==
    IF n = 0 THEN {<<>>}
    ELSE LET shorter == SeqsUpTo(S, n - 1)
         IN  shorter \cup {Append(q, x) : q \in shorter, x \in S}

\* output_extensions: any list over S, duplicates included.
ExtensionLists(S) == SeqsUpTo(S, MaxExts) \ {<<>>}

\* Every (album, track, extension) the compiler visits: album a, the track at
\* 0-based index t, and the i-th entry of output_extensions.
Pairs(md) ==
    UNION {{<<a, t, i>> : t \in 0..(Len(md.Albums[a].Tracks) - 1),
                          i \in DOMAIN md.OutputExtensions} : a \in DOMAIN md.Albums}

PairAlbum(md, x) == md.Albums[x[1]]
PairTrack(md, x) == md.Albums[x[1]].Tracks[x[2] + 1]
PairExtension(md, x) == md.OutputExtensions[x[3]]
PairSource(md, x) == InputRenderedPath(md, PairTrack(md, x))
PairFolder(md, x) == TargetFolder(md, PairAlbum(md, x), PairExtension(md, x))
PairTarget(md, x) ==
    TargetPath(md, PairAlbum(md, x), PairTrack(md, x), TrackNumber(x[2]),
               PairExtension(md, x))

(***************************************************************************)
(* The environment.  A clean environment holds the metadata file, the      *)
(* input folder and every rendered file (all modified at time 1), no       *)
(* target, and an encoder that succeeds.  A fault is one departure from    *)
(* it:                                                                     *)
(*   <<"missing", p>>       the rendered file p does not exist             *)
(*   <<"directory", p>>     p (a rendered file or a target) is a directory *)
(*   <<"file", p, t>>       p (the metadata file, a rendered file or a     *)
(*                          target) is a regular file modified at t        *)
(*   <<"blocked", p>>       a regular file sits where the folder p belongs *)
(*   <<"encoder", p>>       ffmpeg fails on the target p                   *)
(***************************************************************************)
Sources(md) == {PairSource(md, x) : x \in Pairs(md)}
Targets(md) == {PairTarget(md, x) : x \in Pairs(md)}
Folders(md) == {PairFolder(md, x) : x \in Pairs(md)} \cup {md.OutputPath}

FaultOptions(md) ==
    {<<"missing", p>> : p \in Sources(md)}
        \cup {<<"directory", p>> : p \in Sources(md) \cup Targets(md)}
        \cup {<<"file", p, t>> : p \in Sources(md) \cup {MetadataPath}, t \in Times \ {1}}
        \cup {<<"file", p, t>> : p \in Targets(md), t \in Times}
        \cup {<<"blocked", p>> : p \in Folders(md)}
        \cup {<<"encoder", p>> : p \in Targets(md)}

RECURSIVE SubsetsUpTo(_, _)
SubsetsUpTo(S, k) ==
    IF k = 0 THEN {{}}
    ELSE LET smaller == SubsetsUpTo(S, k - 1)
         IN  smaller \cup {F \cup {x} : F \in smaller, x \in S}

\* Does the fault change the filesystem entry at its path?
IsEntry(fault) == fault[1] # "encoder"

\* The folder of a target path, given the pairs of md.
FolderOfTarget(md, p) == PairFolder(md, CHOOSE x \in Pairs(md) : PairTarget(md, x) = p)

\* At most one entry per path, and nothing below a blocked folder.
Consistent(md, F) ==
    /\ \A x \in F, y \in F : (IsEntry(x) /\ IsEntry(y) /\ x[2] = y[2]) => x = y
    /\ \A x \in F : (IsEntry(x) /\ x[2] \in Targets(md)) =>
            /\ <<"blocked", FolderOfTarget(md, x[2])>> \notin F
            /\ <<"blocked", md.OutputPath>> \notin F

FaultSets(md) == {F \in SubsetsUpTo(FaultOptions(md), MaxFaults) : Consistent(md, F)}

\* The entry the faults F put at path p, clean being what is there without.
EntryOf(F, p, clean) ==
    IF <<"missing", p>> \in F THEN <<>>
    ELSE IF <<"directory", p>> \in F THEN <<Dir(1)>>
    ELSE IF <<"blocked", p>> \in F THEN <<File(1)>>
    ELSE IF \E t \in Times : <<"file", p, t>> \in F
    THEN <<File(CHOOSE t \in Times : <<"file", p, t>> \in F)>>
    ELSE clean

\* The filesystem main starts in.
FilesystemOf(md, F) ==
    LET existingTargets == {p \in Targets(md) : EntryOf(F, p, <<>>) # <<>>}
        \* the folders of the targets that exist, and their ancestors
        parents == UNION {Prefixes(TargetFolderParts(md, PairAlbum(md, x),
                                                     PairExtension(md, x))) :
                            x \in {y \in Pairs(md) : PairTarget(md, y) \in existingTargets}}
        blocked == {p \in Folders(md) : <<"blocked", p>> \in F}
        present == {MetadataPath, md.InputPath}
                       \cup {p \in Sources(md) : EntryOf(F, p, <<File(1)>>) # <<>>}
                       \cup existingTargets \cup parents \cup blocked
    IN  [p \in present |->
            IF p = MetadataPath THEN EntryOf(F, p, <<File(1)>>)[1]
            ELSE IF p = md.InputPath THEN Dir(1)
            ELSE IF p \in Sources(md) THEN EntryOf(F, p, <<File(1)>>)[1]
            ELSE IF p \in existingTargets \cup blocked THEN EntryOf(F, p, <<>>)[1]
            ELSE Dir(1)]

EncoderFaults(F) == {x[2] : x \in {y \in F : y[1] = "encoder"}}

-----------------------------------------------------------------------------
(* main, main.go:59-145. *)

\* The work pool before main calls it.
PoolIdle ==
    /\ numThreads = 1
    /\ next = 1
    /\ worker = <<>>
    /\ err = FALSE
    /\ results = <<>>
    /\ reporting = <<>>
    /\ reported = <<>>
    /\ launches = <<>>
    /\ exited = <<>>
    /\ returned = FALSE

\* The program is about to start on some metadata in some environment.
InitWith(md, F) ==
    /\ metadata = md
    /\ fs = FilesystemOf(md, F)
    /\ faulty = EncoderFaults(F)
    /\ metadataModTime = 0
    /\ pc = "start"
    /\ run = 1
    /\ albumIndex = 1
    /\ workItems = <<>>
    /\ stdout = <<>>
    /\ stderr = <<>>
    /\ history = <<>>
    /\ PoolIdle

Init ==
    \E extensions \in ExtensionLists({"mp3", "flac"}),
       nAlbums \in 1..MaxAlbums, nTracks \in 1..MaxTracks :
        LET md == MetadataOf(extensions, AlbumsOf(nAlbums, nTracks))
        IN  \E F \in FaultSets(md) : InitWith(md, F)

\* main.go:73-103  the metadata's modification time, the output folder, and
\* an empty list of work items.  (The metadata file exists: without it
\* os.ReadFile fails and main panics.)
MainStart ==
    /\ pc = "start"
    /\ LET stat == Stat(fs, MetadataPath)
           mk == MkdirAll(fs, <<metadata.OutputPath>>)
       IN  /\ metadataModTime' = stat.ModTime
           /\ fs' = mk.fs
           /\ workItems' = <<>>
           /\ stdout' = <<>>
           /\ albumIndex' = 1
           /\ IF mk.err
              THEN /\ stderr' = <<CreatingDirectory(metadata.OutputPath)>>
                   /\ pc' = "done"
              ELSE /\ stderr' = <<>>
                   /\ pc' = IF Len(metadata.Albums) = 0 THEN "pool" ELSE "compile"
    /\ UNCHANGED <<metadata, faulty, run, history, poolVars>>

\* main.go:106-109  one turn of the loop over the albums
CompileAlbum ==
    /\ pc = "compile"
    /\ albumIndex <= Len(metadata.Albums)
    /\ LET album == metadata.Albums[albumIndex]
           out == processAlbum(metadata, album, metadataModTime, fs)
       IN  /\ workItems' = workItems \o out.workItems
           /\ stdout' = stdout \o out.stdout
           /\ stderr' = stderr \o out.stderr
           /\ fs' = out.fs
    /\ albumIndex' = albumIndex + 1
    /\ pc' = IF albumIndex = Len(metadata.Albums) THEN "pool" ELSE "compile"
    /\ UNCHANGED <<metadata, metadataModTime, faulty, run, history, poolVars>>

\* The target a work item names: the last argument (main.go:246).
TargetOf(item) == item.Args[Len(item.Args)]

\* The rendered file a work item names: the argument after the first "-i" (main.go:205).
SourceOf(item) == item.Args[5]

\* main.go:115-144 as one step: every work item's encoder has run.  An encoder
\* that succeeds has written its target just now; one that fails leaves the
\* filesystem as it was.
RunEncoders ==
    /\ pc = "pool"
    /\ LET written == {TargetOf(workItems[k]) : k \in DOMAIN workItems} \ faulty
       IN  /\ fs' = [p \in DOMAIN fs \cup written |->
                        IF p \in written THEN File(WriteTime) ELSE fs[p]]
           /\ history' = Append(history,
                  [workItems |-> workItems, stdout |-> stdout, stderr |-> stderr,
                   written |-> written, before |-> fs])
    /\ pc' = "done"
    /\ UNCHANGED <<metadata, metadataModTime, faulty, run, albumIndex, workItems,
                   stdout, stderr, poolVars>>

\* The program is started again on the same metadata.
RunAgain ==
    /\ pc = "done"
    /\ run < MaxRuns
    /\ run' = run + 1
    /\ pc' = "start"
    /\ UNCHANGED <<metadata, metadataModTime, fs, faulty, albumIndex, workItems,
                   stdout, stderr, history, poolVars>>

Next == MainStart \/ CompileAlbum \/ RunEncoders \/ RunAgain

Spec == Init /\ [][Next]_vars

-----------------------------------------------------------------------------
(* What the claims speak of, read off a state. *)

\* The compiler has gone through every album and the pool has not started:
\* the filesystem still holds the files the compiler saw.
Compiled == pc = "pool"

SourceStat(x) == Stat(fs, PairSource(metadata, x))
TargetStat(x) == Stat(fs, PairTarget(metadata, x))

SourceIsFile(x) == ~SourceStat(x).err /\ ~SourceStat(x).IsDir

\* A regular file sits on the way to the pair's target folder.
FolderBlocked(x) ==
    \E p \in Prefixes(TargetFolderParts(metadata, PairAlbum(metadata, x),
                                        PairExtension(metadata, x))) :
        p \in DOMAIN fs /\ ~fs[p].isDir

TargetIsDir(x) == ~TargetStat(x).err /\ TargetStat(x).IsDir
TargetIsFile(x) == ~TargetStat(x).err /\ ~TargetStat(x).IsDir

\* The target is a regular file strictly newer than the rendered file and the metadata.
Newer(x) ==
    /\ TargetIsFile(x)
    /\ TargetStat(x).ModTime > SourceStat(x).ModTime
    /\ TargetStat(x).ModTime > metadataModTime

\* The work items, and the skip notices, that name the target path p.
TasksFor(p) == {k \in DOMAIN workItems : TargetOf(workItems[k]) = p}
SkipsFor(p) == {k \in DOMAIN stdout : stdout[k] = Skipping(p)}

\* The pairs whose target path is p.
PairsOf(p, X) == {x \in X : PairTarget(metadata, x) = p}

-----------------------------------------------------------------------------
(* C1 *)

\* C1, as stated: for every pair whose rendered file is a regular file, the
\* pair is skipped as up to date (a skip notice and no task) exactly when the
\* target is a regular file strictly newer than both the rendered file and the
\* metadata; a target that does not exist, or is no newer than either of the
\* two, always gives a task.
C1_AsStated ==
    Compiled =>
        \A x \in Pairs(metadata) :
            SourceIsFile(x) =>
                LET p == PairTarget(metadata, x)
                IN  /\ (SkipsFor(p) # {} /\ TasksFor(p) = {}) <=> Newer(x)
                    /\ (TargetStat(x).err \/ (TargetIsFile(x) /\ ~Newer(x)))
                           => TasksFor(p) # {}

\* C1, amended: the same for every pair whose rendered file is a regular file
\* and whose target folder can be created.
C1_Staleness ==
    Compiled =>
        \A x \in Pairs(metadata) :
            (SourceIsFile(x) /\ ~FolderBlocked(x)) =>
                LET p == PairTarget(metadata, x)
                IN  /\ (SkipsFor(p) # {} /\ TasksFor(p) = {}) <=> Newer(x)
                    /\ (TargetStat(x).err \/ (TargetIsFile(x) /\ ~Newer(x)))
                           => TasksFor(p) # {}

\* C1, witness: one compilation skipped a target newer than both times and
\* rebuilt a target exactly as old as its rendered file.
C1_Witness ==
    /\ Compiled
    /\ \E x \in Pairs(metadata) :
           SourceIsFile(x) /\ Newer(x) /\ SkipsFor(PairTarget(metadata, x)) # {}
    /\ \E x \in Pairs(metadata) :
           /\ SourceIsFile(x) /\ TargetIsFile(x)
           /\ TargetStat(x).ModTime = SourceStat(x).ModTime
           /\ TasksFor(PairTarget(metadata, x)) # {}

-----------------------------------------------------------------------------
(* C2 *)

\* The pairs that give a task, and those skipped as up to date, by the code's rules.
Productive(x) ==
    SourceIsFile(x) /\ ~FolderBlocked(x) /\ ~TargetIsDir(x) /\ ~Newer(x)
UpToDatePair(x) == SourceIsFile(x) /\ ~FolderBlocked(x) /\ Newer(x)

\* The same with only the exceptions the claim lists: rendered file missing,
\* target a directory, target up to date.
ProductiveAsStated(x) == ~SourceStat(x).err /\ ~TargetIsDir(x) /\ ~Newer(x)
UpToDateAsStated(x) == ~SourceStat(x).err /\ Newer(x)

\* C2, as stated: processAlbum returns exactly one task per (track, extension)
\* pair, except none for a track whose rendered file is missing, none for a
\* pair whose target is a directory, and none, but a skip notice, for a pair
\* that is up to date.
C2_AsStated ==
    Compiled =>
        /\ Len(workItems) = Cardinality({x \in Pairs(metadata) : ProductiveAsStated(x)})
        /\ Len(stdout) = Cardinality({x \in Pairs(metadata) : UpToDateAsStated(x)})

\* C2, amended: exactly one task per pair, except none for a track whose
\* rendered file is missing or is a directory, none for a pair whose target
\* folder cannot be created, none for a pair whose target is a directory, and
\* none, but one skip notice, for a pair that is up to date.  Tasks and
\* notices are counted per target path, so a duplicated extension counts twice.
C2_OneTaskPerPair ==
    Compiled =>
        /\ Len(workItems) = Cardinality({x \in Pairs(metadata) : Productive(x)})
        /\ Len(stdout) = Cardinality({x \in Pairs(metadata) : UpToDatePair(x)})
        /\ \A k \in DOMAIN workItems : TargetOf(workItems[k]) \in Targets(metadata)
        /\ \A p \in Targets(metadata) :
               /\ Cardinality(TasksFor(p)) =
                      Cardinality(PairsOf(p, {x \in Pairs(metadata) : Productive(x)}))
               /\ Cardinality(SkipsFor(p)) =
                      Cardinality(PairsOf(p, {x \in Pairs(metadata) : UpToDatePair(x)}))

\* C2, witness: two tracks and two different extensions, exactly one target up
\* to date: three tasks and one skip notice.
C2_Witness ==
    /\ Compiled
    /\ Len(metadata.Albums) = 1
    /\ Len(metadata.Albums[1].Tracks) = 2
    /\ Len(metadata.OutputExtensions) = 2
    /\ metadata.OutputExtensions[1] # metadata.OutputExtensions[2]
    /\ Cardinality({x \in Pairs(metadata) : UpToDatePair(x)}) = 1
    /\ Len(workItems) = 3
    /\ Len(stdout) = 1

-----------------------------------------------------------------------------
(* C9 *)

\* The order in which the compiler visits the pairs.
Before(y, x) ==
    \/ y[1] < x[1]
    \/ y[1] = x[1] /\ y[2] < x[2]
    \/ y[1] = x[1] /\ y[2] = x[2] /\ y[3] < x[3]

\* The task of a pair, from the pair alone.
PairItem(x) ==
    NewWorkItem(PairSource(metadata, x), PairTarget(metadata, x),
                BuildArgs(PairAlbum(metadata, x), PairTrack(metadata, x),
                          TrackNumber(x[2]), PairExtension(metadata, x),
                          PairSource(metadata, x), PairTarget(metadata, x)))

\* The tracks whose rendered file is missing or a directory, and the pairs
\* whose folder cannot be created or whose target is a directory.
FailingTracks ==
    {<<x[1], x[2]>> : x \in {y \in Pairs(metadata) : ~SourceIsFile(y)}}
FailingPairs ==
    {x \in Pairs(metadata) : SourceIsFile(x) /\ (FolderBlocked(x) \/ TargetIsDir(x))}

\* C9: compile errors are isolated.  Whether a pair gives a task depends on
\* that pair's own rendered file, folder and target only; the work items are
\* the tasks of the pairs that give one, in the order of the tree, each as it
\* is built from its own pair, whatever fails before or after it; every
\* failing track and every failing pair is reported once, so the compiler went
\* on to the last track of the last album.
C9_ErrorsIsolated ==
    Compiled =>
        LET Good == {x \in Pairs(metadata) : Productive(x)}
            Rank(x) == Cardinality({y \in Good : Before(y, x)}) + 1
        IN  /\ Len(workItems) = Cardinality(Good)
            /\ \A x \in Good : workItems[Rank(x)] = PairItem(x)
            /\ Len(stderr) = Cardinality(FailingTracks) + Cardinality(FailingPairs)
            /\ albumIndex = Len(metadata.Albums) + 1

\* C9, witness: the first track of the first album has no rendered file, a
\* pair of a later track fails too, and the last pair of the last album still
\* gives its task.
C9_Witness ==
    /\ Compiled
    /\ Len(metadata.Albums) = 2
    /\ <<1, 0>> \in FailingTracks
    /\ FailingPairs # {}
    /\ LET last == <<2, Len(metadata.Albums[2].Tracks) - 1, Len(metadata.OutputExtensions)>>
       IN  /\ Productive(last)
           /\ workItems[Len(workItems)] = PairItem(last)

-----------------------------------------------------------------------------
(* C3 *)

\* C3, as stated: on a second run over unchanged metadata, with no change to
\* the filesystem but the program's own, there are no tasks.  (The claim goes
\* on: every pair is skipped as up to date and only skip notices are
\* produced; that asks for more, and fails wherever this does.)
C3_AsStated == (run > 1 /\ Compiled) => workItems = <<>>

\* C3, amended: on a second run a pair gives no task, and a skip notice, when
\* the run before skipped it or compiled a task for it whose encoder succeeded
\* and wrote the target strictly later than both the rendered file and the
\* metadata were modified; a task whose encoder failed, or whose target was
\* written no later than one of the two, is compiled again, and the compile
\* errors are the same again.  So the second run has no tasks exactly when
\* every task of the first was carried out that way.
C3_SecondRun ==
    (run > 1 /\ Compiled) =>
        LET h == history[Len(history)]
            Fresh(w) ==
                /\ TargetOf(w) \in h.written
                /\ WriteTime > fs[SourceOf(w)].modTime
                /\ WriteTime > metadataModTime
            Again(w) == ~Fresh(w)
            done == {k \in DOMAIN h.workItems : Fresh(h.workItems[k])}
        IN  /\ workItems = SelectSeq(h.workItems, Again)
            /\ stderr = h.stderr
            /\ Len(stdout) = Len(h.stdout) + Cardinality(done)
            /\ {stdout[k] : k \in DOMAIN stdout} =
                   {h.stdout[k] : k \in DOMAIN h.stdout}
                       \cup {Skipping(TargetOf(h.workItems[k])) : k \in done}
            /\ (workItems = <<>>) <=> (done = DOMAIN h.workItems)

\* C3, witness: the first run compiled at least two tasks, every encoder
\* succeeded, and the second run has no task and nothing but skip notices.
C3_Witness ==
    /\ run = 2
    /\ Compiled
    /\ Len(history[1].workItems) >= 2
    /\ workItems = <<>>
    /\ stderr = <<>>
    /\ Len(stdout) = Len(history[1].workItems)

-----------------------------------------------------------------------------
(* SpecTags: one album with one track in a clean environment, over every    *)
(* combination of album cover, track cover and list of extensions.          *)

AlbumCovers == {"", "Art/Fruit.png"}
TrackCovers == {Nil, Ptr(""), Ptr("Art/Apple.png")}

InitTags ==
    \E extensions \in ExtensionLists(Extensions),
       albumCover \in AlbumCovers, trackCover \in TrackCovers :
        LET track == [Catalogue[1].Tracks[1] EXCEPT !.Cover = trackCover]
            album == [Catalogue[1] EXCEPT !.Cover = albumCover, !.Tracks = <<track>>]
        IN  InitWith(MetadataOf(extensions, <<album>>), {})

SpecTags == InitTags /\ [][Next]_vars

-----------------------------------------------------------------------------
(* C10 *)

\* The positions of the input options in an argument list.
Inputs(args) == {j \in DOMAIN args : args[j] = "-i"}

\* The argument list has a second input, marked as attached picture with the
\* front-cover tags.
HasSecondInput(args) ==
    /\ Cardinality(Inputs(args)) = 2
    /\ \E j \in DOMAIN args : args[j] = "attached_pic"
    /\ \E j \in DOMAIN args : args[j] = "comment=Cover (Front)"

\* C10: a task's argument list has a second input (the cover image) exactly
\* when the cover path resolved by override (the track's cover if present, else
\* the album's) is non-empty and the extension is not "wav".
C10_CoverInput ==
    Compiled =>
        \A x \in Pairs(metadata) :
            \A k \in TasksFor(PairTarget(metadata, x)) :
                HasSecondInput(workItems[k].Args) <=>
                    /\ override(PairAlbum(metadata, x).Cover,
                                PairTrack(metadata, x).Cover) # ""
                    /\ PairExtension(metadata, x) # "wav"

-----------------------------------------------------------------------------
(* The work pool, main.go:114-144, step by step.                            *)
(*                                                                          *)
(* main hands coutil.WorkPool the number of threads, the work items and two *)
(* callbacks.  The callbacks are modelled from main.go.  The pool itself is *)
(* modelled from the specification's Execution Pool: a bounded pool of      *)
(* workers takes the items from a shared queue, each worker calls the work  *)
(* callback on its item, the returned items are handed one at a time to     *)
(* the reporter, and the pool returns when every item has been reported.    *)

MaxTasks == 2      \* work items handed to the pool
MaxThreads == 2    \* the largest -num-threads

\* What one run of ffmpeg can come to.
Outcomes == {"launch error", "exit 0", "exit 1"}

\* cmd.Run() returns an error when the process could not be started and when
\* it exited with a non-zero code (an *exec.ExitError).
RunError(outcome) == outcome # "exit 0"

\* cmd.ProcessState.ExitCode(): -1 when the process never ran.
ExitCode(outcome) ==
    CASE outcome = "exit 0" -> 0
      [] outcome = "exit 1" -> 1
      [] OTHER -> -1

IdleWorker == [at |-> "idle", index |-> 0, exitCode |-> 0, Error |-> Nil]

\* The work items of the first album of the catalogue, three tracks in mp3 and
\* flac, compiled in a clean environment.
PoolMetadata == MetadataOf(<<"mp3", "flac">>, AlbumsOf(1, 3))
PoolItems ==
    processAlbum(PoolMetadata, PoolMetadata.Albums[1], 1,
                 FilesystemOf(PoolMetadata, {})).workItems

\* main has compiled n work items and is about to call the pool with
\* -num-threads c.
InitPool ==
    \E n \in 0..MaxTasks, c \in 1..MaxThreads :
        /\ metadata = PoolMetadata
        /\ fs = processAlbum(PoolMetadata, PoolMetadata.Albums[1], 1,
                             FilesystemOf(PoolMetadata, {})).fs
        /\ faulty = {}
        /\ metadataModTime = 1
        /\ pc = "pool"
        /\ run = 1
        /\ albumIndex = 2
        /\ workItems = SubSeq(PoolItems, 1, n)
        /\ stdout = <<>>
        /\ stderr = <<>>
        /\ history = <<>>
        /\ numThreads = c
        /\ next = 1
        /\ worker = <<>>
        /\ err = FALSE
        /\ results = <<>>
        /\ reporting = <<>>
        /\ reported = <<>>
        /\ launches = <<>>
        /\ exited = <<>>
        /\ returned = FALSE

\* A slip at main.go:116: one thread too many.
OneThreadMore == numThreads + 1

\* main.go:116  the number of workers main asks for: *numThreadsFlag
PoolThreads == numThreads

\* main.go:115-117  main calls coutil.WorkPool
CallWorkPool ==
    /\ pc = "pool"
    /\ pc' = "running"
    /\ worker' = [w \in 1..PoolThreads |-> IdleWorker]
    /\ next' = 1
    /\ launches' = [k \in DOMAIN workItems |-> 0]
    /\ exited' = [k \in DOMAIN workItems |-> <<>>]
    /\ UNCHANGED <<inputVars, err, results, reporting, reported, returned>>


\* Execution Pool: an idle worker takes the next item of the queue.
Take(w) ==
    /\ pc = "running"
    /\ worker[w].at = "idle"
    /\ next <= Len(workItems)
    /\ worker' = [worker EXCEPT ![w] = [IdleWorker EXCEPT !.at = "called", !.index = next]]
    /\ next' = next + 1
    /\ UNCHANGED <<inputVars, pc, err, results, reporting, reported, launches, exited,
                   returned>>

\* A slip at main.go:119-125: the command is built but never run.
NeverRun(w) ==
    /\ pc = "running"
    /\ worker[w].at = "called"
    /\ worker' = [worker EXCEPT ![w].at = "ran"]
    /\ UNCHANGED <<inputVars, pc, next, err, results, reporting, reported, launches,
                   exited, returned>>

\* main.go:119-125  the work callback builds the command and cmd.Run() starts
\* the process
RunCommand(w) ==
    /\ pc = "running"
    /\ worker[w].at = "called"
    /\ worker' = [worker EXCEPT ![w].at = "running"]
    /\ launches' = [launches EXCEPT ![worker[w].index] = @ + 1]
    /\ UNCHANGED <<inputVars, pc, next, err, results, reporting, reported, exited,
                   returned>>

\* main.go:125  the process comes to its end, cmd.Run() returns and its result
\* is stored in err, the variable of main that every worker's callback shares
CommandExits(w) ==
    /\ pc = "running"
    /\ worker[w].at = "running"
    /\ \E outcome \in Outcomes :
        /\ exited' = [exited EXCEPT ![worker[w].index] = Append(@, outcome)]
        /\ err' = RunError(outcome)
        /\ worker' = [worker EXCEPT ![w].at = "ran", ![w].exitCode = ExitCode(outcome)]
    /\ UNCHANGED <<inputVars, pc, next, results, reporting, reported, launches, returned>>

\* main.go:127-136  the callback reads err, then the exit code, sets
\* item.Error and returns the item
CheckError(w) ==
    /\ pc = "running"
    /\ worker[w].at = "ran"
    /\ worker' = [worker EXCEPT
           ![w].at = "returned",
           ![w].Error = IF err THEN Ptr("error: (file in use?)")
                        ELSE IF worker[w].exitCode # 0 THEN Ptr("error: ffmpeg")
                        ELSE Nil]
    /\ UNCHANGED <<inputVars, pc, next, err, results, reporting, reported, launches,
                   exited, returned>>

\* Execution Pool: the item the callback returned joins the results that
\* wait for the reporter, and the worker is idle again.
Collect(w) ==
    /\ pc = "running"
    /\ worker[w].at = "returned"
    /\ results' = Append(results,
           [index |-> worker[w].index,
            item |-> [workItems[worker[w].index] EXCEPT !.Error = worker[w].Error]])
    /\ worker' = [worker EXCEPT ![w] = IdleWorker]
    /\ UNCHANGED <<inputVars, pc, next, err, reporting, reported, launches, exited,
                   returned>>

\* The reporter is called whether or not it is still at work on an item.
ReporterAlwaysFree == TRUE

\* Execution Pool: delivery is serialized, one call of the reporter at a time.
ReporterFree == reporting = <<>>

\* Execution Pool: the reporter is called with the next result.
BeginReport ==
    /\ pc = "running"
    /\ results # <<>>
    /\ ReporterFree
    /\ reporting' = Append(reporting, Head(results))
    /\ results' = Tail(results)
    /\ UNCHANGED <<inputVars, pc, next, worker, err, reported, launches, exited, returned>>

\* main.go:138-144  the reporter prints the item's error or its task
EndReport ==
    /\ pc = "running"
    /\ reporting # <<>>
    /\ \E j \in DOMAIN reporting :
        /\ reported' = Append(reported,
               [index |-> reporting[j].index,
                stream |-> IF reporting[j].item.Error # Nil THEN "stderr" ELSE "stdout",
                text |-> IF reporting[j].item.Error # Nil
                         THEN reporting[j].item.Error[1]
                         ELSE reporting[j].item.Task])
        /\ reporting' = SubSeq(reporting, 1, j - 1)
                            \o SubSeq(reporting, j + 1, Len(reporting))
    /\ UNCHANGED <<inputVars, pc, next, worker, err, results, launches, exited, returned>>

\* The pool returns as soon as the queue is empty.
QueueEmpty == next > Len(workItems)

\* Execution Pool: every item has been taken, worked on and reported.
AllReported ==
    /\ next > Len(workItems)
    /\ \A w \in DOMAIN worker : worker[w].at = "idle"
    /\ results = <<>>
    /\ reporting = <<>>

\* Execution Pool: coutil.WorkPool returns to main, and main ends (main.go:145).
WorkPoolReturns ==
    /\ pc = "running"
    /\ AllReported
    /\ returned' = TRUE
    /\ pc' = "done"
    /\ UNCHANGED <<inputVars, next, worker, err, results, reporting, reported, launches,
                   exited>>

NextPool ==
    \/ CallWorkPool
    \/ \E w \in DOMAIN worker : Take(w)
    \/ \E w \in DOMAIN worker : RunCommand(w)
    \/ \E w \in DOMAIN worker : CommandExits(w)
    \/ \E w \in DOMAIN worker : CheckError(w)
    \/ \E w \in DOMAIN worker : Collect(w)
    \/ BeginReport
    \/ EndReport
    \/ WorkPoolReturns

SpecPool == InitPool /\ [][NextPool]_vars

\* The scheduler runs whatever can run, and every process comes to an end.
SpecPoolFair == SpecPool /\ WF_vars(NextPool)

-----------------------------------------------------------------------------
(* What the pool's claims speak of. *)

\* The pool has been called: the counters of the items exist.
PoolCalled == pc \in {"running", "done"} /\ DOMAIN launches = DOMAIN workItems

\* The calls of the reporter, begun or finished, for the item at index k.
ReportsBegun(k) ==
    Cardinality({j \in DOMAIN reporting : reporting[j].index = k})
        + Cardinality({j \in DOMAIN reported : reported[j].index = k})
ReportsDone(k) == Cardinality({j \in DOMAIN reported : reported[j].index = k})

\* The items a worker has taken whose process has not come to its end.
InFlight == {k \in DOMAIN exited : k < next /\ exited[k] = <<>>}

-----------------------------------------------------------------------------
(* C4 *)

\* C4: under every interleaving each task's process is started at most once
\* and the reporter is called at most once per task, never before the task's
\* process has come to its end; when the pool returns, every process has been
\* started exactly once and there are exactly N reports, one per task.
C4_ExactlyOnce ==
    PoolCalled =>
        /\ \A k \in DOMAIN workItems :
               /\ launches[k] <= 1
               /\ Len(exited[k]) <= launches[k]
               /\ ReportsBegun(k) <= 1
               /\ ReportsBegun(k) > 0 => Len(exited[k]) = 1
        /\ returned =>
               /\ \A k \in DOMAIN workItems : launches[k] = 1 /\ ReportsDone(k) = 1
               /\ Len(reported) = Len(workItems)

\* C4, witness: the pool has returned from two tasks run by two workers.
C4_Witness ==
    /\ returned
    /\ Len(workItems) = 2
    /\ numThreads = 2
    /\ Len(reported) = 2
    /\ \A k \in DOMAIN workItems : launches[k] = 1

-----------------------------------------------------------------------------
(* C5 *)

\* C5: the outcome reported for a task is a failure exactly when that task's
\* own process failed to launch or exited with a non-zero code, whatever the
\* processes of the other tasks did.
C5_OwnOutcome ==
    PoolCalled =>
        \A j \in DOMAIN reported :
            (reported[j].stream = "stderr") <=> (exited[reported[j].index][1] # "exit 0")

-----------------------------------------------------------------------------
(* C6 *)

\* C6: at every moment the number of encoder processes in flight (tasks taken
\* by a worker whose process has not come to its end) is at most -num-threads.
C6_BoundedInFlight == PoolCalled => Cardinality(InFlight) <= numThreads

\* C6, witness: more tasks than threads, one still waiting to be taken, and
\* as many in flight as there are threads.
C6_Witness ==
    /\ PoolCalled
    /\ Len(workItems) > numThreads
    /\ next <= Len(workItems)
    /\ Cardinality(InFlight) = numThreads
    /\ \A w \in DOMAIN worker : worker[w].at = "running"

-----------------------------------------------------------------------------
(* C7 *)

\* C7: at most one call of the reporter is in progress at any time.
C7_ReporterSequential == Len(reporting) <= 1

\* C7, witness: the reporter is at work on one item while another waits for
\* it, and the item it is at work on is not the first task's: the order of the
\* reports is not the order of the tasks.
C7_Witness ==
    /\ Len(reporting) = 1
    /\ results # <<>>
    /\ reported = <<>>
    /\ reporting[1].index # 1

-----------------------------------------------------------------------------
(* C8 *)

\* C8: when every process comes to an end and the workers are scheduled
\* fairly, the pool returns, and it never has returned while a task is not
\* yet reported.
C8_AllReportedThenReturns ==
    /\ <>returned
    /\ [](returned => \A k \in DOMAIN workItems : ReportsDone(k) = 1)

\* C8, witness: the pool has returned with both of two tasks reported.
C8_Witness ==
    /\ returned
    /\ pc = "done"
    /\ Len(workItems) = 2
    /\ \A k \in DOMAIN workItems : ReportsDone(k) = 1

-----------------------------------------------------------------------------
(* C11 *)

\* C11: in the task list handed to the pool no two distinct tasks have the
\* same target path, whatever the metadata tree and the list of output
\* extensions (lists with duplicate extensions included).
C11_DistinctTargets ==
    Compiled =>
        \A j, k \in DOMAIN workItems :
            j # k => TargetOf(workItems[j]) # TargetOf(workItems[k])

-----------------------------------------------------------------------------
(* Tag overrides: one album whose first track overrides any of its tags. *)

\* What a track may say for a tag: nothing, the empty string, or a value.
Overrides(value) == {Nil, Ptr(""), Ptr(value)}

InitOverrides ==
    \E extensions \in ExtensionLists({"mp3", "wav"}), nTracks \in 1..MaxTracks,
       genre \in Overrides("Jazz"), date \in Overrides("1999"),
       artist \in Overrides("The Guest"), composer \in Overrides("The Arranger"),
       copyright \in Overrides("Public domain") :
        LET tracks == AlbumsOf(1, nTracks)[1].Tracks
            first == [tracks[1] EXCEPT !.Genre = genre, !.Date = date,
                                       !.Artist = artist, !.Composer = composer,
                                       !.Copyright = copyright]
            album == [Catalogue[1] EXCEPT !.Artist = "The Band",
                                          !.Tracks = [tracks EXCEPT ![1] = first]]
        IN  InitWith(MetadataOf(extensions, <<album>>), {})

SpecOverrides == InitOverrides /\ [][Next]_vars

-----------------------------------------------------------------------------
(* C12 *)

\* The overridable tags: the ffmpeg tag and the field it is taken from.
TagFields ==
    {<<"genre", "Genre">>, <<"date", "Date">>, <<"artist", "Artist">>,
     <<"album_artist", "Artist">>, <<"composer", "Composer">>,
     <<"comment", "Copyright">>}

\* The positions of the "-metadata" keys of an argument list, and the
\* tag=value arguments that follow them.
MetadataKeys(args) == {j \in DOMAIN args : args[j] = "-metadata"}
Tags(args) == {args[j + 1] : j \in MetadataKeys(args)}

\* C12: for every task and each overridable tag (genre, date, artist,
\* album_artist, composer, comment from copyright) independently, the value in
\* the task's metadata arguments is the track's override when the track has
\* one, the empty string included, and the album's value when it has none; the
\* argument list holds one tag=value argument per tag and no other.
C12_TagOverrides ==
    Compiled =>
        \A x \in Pairs(metadata) :
            \A k \in TasksFor(PairTarget(metadata, x)) :
                LET album == PairAlbum(metadata, x)
                    track == PairTrack(metadata, x)
                    args == workItems[k].Args
                IN  /\ Cardinality(MetadataKeys(args)) = Cardinality(TagFields) + 3
                    /\ \A f \in TagFields :
                        /\ track[f[2]] = Nil =>
                               (f[1] \o "=" \o album[f[2]]) \in Tags(args)
                        /\ track[f[2]] # Nil =>
                               (f[1] \o "=" \o track[f[2]][1]) \in Tags(args)

\* C12, witness: a task of a track that overrides one tag with a value and
\* another with the empty string and leaves a third to the album, next to a
\* task of a track that overrides nothing.
C12_Witness ==
    /\ Compiled
    /\ Len(metadata.Albums[1].Tracks) = 2
    /\ Len(workItems) >= 2
    /\ LET track == metadata.Albums[1].Tracks[1]
       IN  /\ track.Genre = Ptr("Jazz")
           /\ track.Artist = Ptr("")
           /\ track.Composer = Nil
           /\ "genre=Jazz" \in Tags(workItems[1].Args)
           /\ "artist=" \in Tags(workItems[1].Args)
           /\ "composer=The Composer" \in Tags(workItems[1].Args)
    /\ "genre=Electronic" \in Tags(workItems[Len(workItems)].Args)

-----------------------------------------------------------------------------
(* Track fates: what the compiler finds for each track of the first album. *)

\* The rendered file is a regular file with no target yet, is missing, is a
\* directory, or is a regular file whose targets are all up to date.
TrackFates == {"file", "missing", "directory", "up to date"}

\* The faults that give the track at 0-based index t of the first album its fate.
FaultsOfFate(md, t, fate) ==
    LET pairs == {x \in Pairs(md) : x[1] = 1 /\ x[2] = t}
    IN  CASE fate = "missing" -> {<<"missing", PairSource(md, x)>> : x \in pairs}
          [] fate = "directory" -> {<<"directory", PairSource(md, x)>> : x \in pairs}
          [] fate = "up to date" -> {<<"file", PairTarget(md, x), MaxTime>> : x \in pairs}
          [] OTHER -> {}

InitOrdinals ==
    \E extensions \in ExtensionLists({"mp3", "flac"}),
       nAlbums \in 1..MaxAlbums, nTracks \in 1..MaxTracks :
        \E fates \in [0..(nTracks - 1) -> TrackFates] :
            LET md == MetadataOf(extensions, AlbumsOf(nAlbums, nTracks))
            IN  InitWith(md, UNION {FaultsOfFate(md, t, fates[t]) : t \in DOMAIN fates})

SpecOrdinals == InitOrdinals /\ [][Next]_vars

-----------------------------------------------------------------------------
(* C13 *)

\* The decimal numerals of the positions 1..9 of a track list.
Numerals == <<"1", "2", "3", "4", "5", "6", "7", "8", "9">>

\* The target path and the track tag of pair x when its ordinal is n, written
\* out with the numerals.
TargetWithOrdinal(x, n) ==
    LET album == PairAlbum(metadata, x)
        track == PairTrack(metadata, x)
        extension == PairExtension(metadata, x)
    IN  metadata.OutputPath \o "/" \o extension \o "/" \o album.Artist \o "/"
            \o album.Title \o "/" \o album.Artist \o " - " \o album.Title
            \o " - 0" \o Numerals[n] \o " " \o track.Title
            \o " [" \o track.RenderedFile \o "]." \o extension
TrackTagWithOrdinal(n) == "track=" \o Numerals[n]

\* C13: every task is the task of a track of the tree, and the ordinal in its
\* target filename (two digits) and in its track tag is that track's 1-based
\* position in its album's track list, whatever happened to the tracks before
\* it (rendered file missing or a directory, target up to date) and whichever
\* album came before.
C13_Ordinals ==
    Compiled =>
        \A k \in DOMAIN workItems :
            \E x \in Pairs(metadata) :
                /\ SourceOf(workItems[k]) = PairSource(metadata, x)
                /\ TargetOf(workItems[k]) = TargetWithOrdinal(x, x[2] + 1)
                /\ TrackTagWithOrdinal(x[2] + 1) \in Tags(workItems[k].Args)
                /\ \A n \in 1..Len(Numerals) :
                       n # x[2] + 1 =>
                           TrackTagWithOrdinal(n) \notin Tags(workItems[k].Args)

\* C13, witness: the first track of the first album gave no task (its
\* rendered file is missing or a directory, or its targets are up to date),
\* the first task is the second track's and carries the ordinal 2, and a
\* later task is the first track's of the second album and carries the
\* ordinal 1.
C13_Witness ==
    /\ Compiled
    /\ Len(metadata.Albums) = 2
    /\ Len(metadata.Albums[1].Tracks) = 2
    /\ workItems # <<>>
    /\ SourceOf(workItems[1]) = PairSource(metadata, <<1, 1, 1>>)
    /\ TargetOf(workItems[1]) = TargetWithOrdinal(<<1, 1, 1>>, 2)
    /\ "track=2" \in Tags(workItems[1].Args)
    /\ \E k \in DOMAIN workItems :
           /\ TargetOf(workItems[k]) = TargetWithOrdinal(<<2, 0, 1>>, 1)
           /\ "track=1" \in Tags(workItems[k].Args)

====
